---- MODULE Spec2Model ----
(***************************************************************************)
(* Model of the gut-punch-cli scheduling engine:                           *)
(*   PriorityQueue        src/src/core/queue.ts  lines 18-37               *)
(*   Scheduler            src/src/core/queue.ts  lines 48-267              *)
(*   JobDb (store)        src/src/core/types.ts  lines 87-253              *)
(*   enums                src/src/config/index.ts lines 194-209            *)
(* Time is in milliseconds.  An optional (nullable / undefined) value is   *)
(* a sequence of length at most one: <<>> is NULL, <<x>> is the value x.   *)
(***************************************************************************)
EXTENDS Integers, Sequences, FiniteSets, TLC

VARIABLES
    now,            \* Date.now() of the scheduler process
    pc,             \* position of the control loop
    files,          \* the job modules found in the jobs directory
    jobDefinitions, \* Scheduler.jobDefinitions: set of loaded definitions
    scheduled,      \* table scheduled_jobs: sequence of rows in rowid order
    jobRuns,        \* table job_runs: sequence of rows, row i has id i
    queues,         \* Scheduler.queues: name -> PriorityQueue.items
    qIdx,           \* index of the queue the dispatch loop of the tick is at
    cur,            \* the dequeued QueueItem whose job is executing, or <<>>
    delay,          \* the delay handed to setTimeout at the end of the tick
    diff,           \* the diff computed in the Sleep phase, or <<>>
    timerAt,        \* the time the pending setTimeout fires
    last,           \* the last finished dispatch (history), or <<>>; written is
                    \* the status its update with the result has persisted
    tick,           \* number of ticks begun on the database file (history)
    dequeued,       \* queue name -> items dequeued in the current tick (history)
    dbOpen,         \* the store connection is open
    closedOps,      \* store operations issued after closeDb() (history)
    inherited,      \* number of job_runs rows the process found at its start
    fault,          \* the last store fault: [phase, tick, qIdx, row, n] (history), or <<>>
    pq,             \* items of a stand-alone PriorityQueue
    pqCount,        \* number of enqueue calls made on pq
    pqPrev,         \* pq.items right before the last dequeue
    pqOut           \* the result of the last dequeue, or <<>>

vars == <<now, pc, files, jobDefinitions, scheduled, jobRuns, queues, qIdx,
          cur, delay, diff, timerAt, last, tick, dequeued, dbOpen, closedOps,
          fault, inherited, pq, pqCount, pqPrev, pqOut>>

storeVars == <<dbOpen, closedOps, fault, inherited>>

schedVars == <<now, pc, files, jobDefinitions, scheduled, jobRuns, queues,
               qIdx, cur, delay, diff, timerAt, last, tick, dequeued,
               dbOpen, closedOps, fault, inherited>>

pqVars == <<pq, pqCount, pqPrev, pqOut>>

----------------------------------------------------------------------------
(* Bounds of the model *)

MaxTicks == 4

MaxRuns == 3

MaxPQLen == 4

MaxPQEnq == 5

MaxBatch == 51

MaxFaults == 2

MaxFiles == 3

----------------------------------------------------------------------------
(* Optional values *)

None == <<>>

Some(x) == <<x>>

IsSome(o) == Len(o) = 1

Val(o) == o[1]

----------------------------------------------------------------------------
(* enums (src/src/config/index.ts) *)

Pending == 0

Running == 1

Success == 2

Failed == 3

Retrying == 4

QueuePriorityHigh == 0

QueuePriorityDefault == 1

QueuePriorityLow == 2

----------------------------------------------------------------------------
(* PriorityQueue (src/src/core/queue.ts 18-37) *)

\* Variant of EqualPriority: the items of priority p in reverse array
\* order, as a sort that does not keep ties in order may leave them.
EqualPriorityReversed(s, p) ==
    LET Same(x) == x.priority = p
        e == SelectSeq(s, Same)
    IN [i \in 1..Len(e) |-> e[Len(e) + 1 - i]]

\* Array.prototype.sort is a stable sort: the items the comparator
\* a.priority - b.priority calls equal, those of one priority p, keep the
\* order they have in the array.
EqualPriority(s, p) ==
    LET Same(x) == x.priority = p IN SelectSeq(s, Same)

\* The items of s whose priority is in ps, by ascending priority.
RECURSIVE SortedFrom(_, _)
SortedFrom(s, ps) ==
    IF ps = {} THEN << >>
    ELSE LET p == CHOOSE x \in ps : \A y \in ps : x <= y
         IN EqualPriority(s, p) \o SortedFrom(s, ps \ {p})

\* items.sort((a, b) => a.priority - b.priority): the whole array, by
\* ascending priority.
SortByPriority(s) == SortedFrom(s, {s[i].priority : i \in 1..Len(s)})

\* Variant of Enqueue: the item is put in front of the array (unshift).
EnqueueFront(items, job, runId, priority) ==
    SortByPriority(<<[job |-> job, runId |-> runId, priority |-> priority]>> \o items)

\* enqueue(job, runId, priority): push, then sort.
Enqueue(items, job, runId, priority) ==
    SortByPriority(Append(items, [job |-> job, runId |-> runId, priority |-> priority]))

\* dequeue(): items.shift(); the returned item (or <<>> for undefined).
DequeueItem(items) == IF items = <<>> THEN None ELSE Some(Head(items))

\* Variant of DequeueRest: the head is read but not removed (a peek).
DequeueKeepsHead(items) == items

\* dequeue(): the array left behind.
DequeueRest(items) == IF items = <<>> THEN <<>> ELSE Tail(items)

\* size()
Size(items) == Len(items)

----------------------------------------------------------------------------
(* JavaScript values that cross the execution boundary *)

\* An Error (or a job's error text): .message is kind + code + text.
Msg(kind, code, text) == [kind |-> kind, code |-> code, text |-> text]

\* A JSON / JavaScript value: its type and its canonical JSON text.
JsVal(t, text) == [t |-> t, text |-> text]

Undefined == JsVal("undefined", "")

OkObj == JsVal("object", "{\"ok\":true}")

Zero == JsVal("number", "0")

Payloads == {Undefined, OkObj, Zero}

\* ToBoolean(v), as used by `result.output ? ... : undefined`
Truthy(v) ==
    /\ v.t \notin {"undefined", "null"}
    /\ ~(v.t = "number" /\ v.text = "0")
    /\ ~(v.t = "string" /\ v.text = "\"\"")
    /\ ~(v.t = "boolean" /\ v.text = "false")

\* JSON.stringify(v)
JSONstringify(v) == v.text

\* A value held by `result`: t is its JavaScript type; an object carries the
\* fields of a JobResult, each possibly absent.
JsResult(t, status, output, error) ==
    [t |-> t, status |-> status, output |-> output, error |-> error]

ResObj(status, output, error) == JsResult("object", status, output, error)

JsNull == JsResult("null", None, Undefined, None)

JsUndefined == JsResult("undefined", None, Undefined, None)

JsFive == JsResult("number", None, Undefined, None)

JobFailedMsg == Msg("JobError", 0, "job failed")

\* JSON.parse(stdout): [threw |-> TRUE] for a SyntaxError, else the value.
JSONparse(stdout) ==
    CASE stdout = "{\"status\":2,\"output\":{\"ok\":true}}" ->
            [threw |-> FALSE, value |-> ResObj(Some(Success), OkObj, None)]
      [] stdout = "{\"status\":2}" ->
            [threw |-> FALSE, value |-> ResObj(Some(Success), Undefined, None)]
      [] stdout = "{\"status\":2,\"output\":0}" ->
            [threw |-> FALSE, value |-> ResObj(Some(Success), Zero, None)]
      [] stdout = "{\"status\":3,\"error\":\"job failed\"}" ->
            [threw |-> FALSE, value |-> ResObj(Some(Failed), Undefined, Some(JobFailedMsg))]
      [] stdout = "{}" ->
            [threw |-> FALSE, value |-> ResObj(None, Undefined, None)]
      [] stdout = "null" -> [threw |-> FALSE, value |-> JsNull]
      [] stdout = "5" -> [threw |-> FALSE, value |-> JsFive]
      [] OTHER -> [threw |-> TRUE, value |-> JsUndefined]

\* Standard outputs a job process can leave behind.
Stdouts ==
    { "{\"status\":2,\"output\":{\"ok\":true}}", "{\"status\":2}",
      "{\"status\":2,\"output\":0}", "{\"status\":3,\"error\":\"job failed\"}",
      "{}", "null", "5", "", "Job log: ran" }

\* The processes the model lets a job be: [exitCode, stdout, stderr].
Exits ==
    { [exitCode |-> 0, stdout |-> so, stderr |-> ""] :
        so \in Stdouts }
    \cup
    { [exitCode |-> 1, stdout |-> "", stderr |-> "boom"],
      [exitCode |-> 1, stdout |-> "{\"status\":2,\"output\":{\"ok\":true}}",
       stderr |-> "boom"],
      [exitCode |-> 2, stdout |-> "", stderr |-> ""] }

\* What one execution of a job can come to.
\*   in-process: run() returns a value or a fault is raised;
\*   subprocess: exit code, captured stdout and stderr.
\*   thrown is the kind of value a fault carries: an Error object (it has a
\*   message), a string (it has none) or undefined (a promise rejected
\*   without a reason; reading its message is itself a TypeError).
ThrownKinds == {"Error", "string", "undefined"}

InProcessOutcomes ==
    { [mode |-> "inProcess", threw |-> FALSE, thrown |-> "", value |-> v,
       exitCode |-> 0, stdout |-> "", stderr |-> ""] :
         v \in { ResObj(Some(Success), OkObj, None),
                 ResObj(Some(Failed), Undefined, Some(JobFailedMsg)),
                 ResObj(Some(Retrying), Undefined, None),
                 JsUndefined } }
    \cup
    { [mode |-> "inProcess", threw |-> TRUE, thrown |-> k, value |-> JsUndefined,
       exitCode |-> 0, stdout |-> "", stderr |-> ""] : k \in ThrownKinds }

SubprocessOutcomes ==
    { [mode |-> "subprocess", threw |-> FALSE, thrown |-> "", value |-> JsUndefined,
       exitCode |-> x.exitCode, stdout |-> x.stdout, stderr |-> x.stderr] :
         x \in Exits }

----------------------------------------------------------------------------
(* JobDb, the durable store (src/src/core/types.ts 87-253).  Timestamps are *)
(* written with toISOString() and read back with new Date(iso).getTime();   *)
(* the text keeps the millisecond and has a fixed width, so the text order  *)
(* the queries use is the numeric order of the millisecond values kept here.*)

\* Variant of InsertJobRun: the id is not generated, every row gets id 1.
InsertJobRunFixedId(runs, run) ==
    Append(runs, [id |-> 1, job_name |-> run.job_name,
                  queue_name |-> run.queue_name, priority |-> run.priority,
                  status |-> run.status, started_at |-> None,
                  finished_at |-> None, output |-> None, error |-> None])

\* insertJobRun(run): the row gets the next AUTOINCREMENT id.
InsertJobRun(runs, run) ==
    Append(runs, [id |-> Len(runs) + 1, job_name |-> run.job_name,
                  queue_name |-> run.queue_name, priority |-> run.priority,
                  status |-> run.status, started_at |-> None,
                  finished_at |-> None, output |-> None, error |-> None])

\* The id insertJobRun returns.
LastInsertRowid(runs) == Len(runs)

\* A Partial<JobRunRecord>: every field optional.
Updates(status, started_at, finished_at, output, error) ==
    [status |-> status, started_at |-> started_at,
     finished_at |-> finished_at, output |-> output, error |-> error]

\* updateJobRun(id, updates): SET of the fields that are not undefined,
\* on the row with that id.
UpdateJobRun(runs, id, u) ==
    [i \in 1..Len(runs) |->
        IF runs[i].id # id THEN runs[i]
        ELSE [runs[i] EXCEPT
                !.status = IF IsSome(u.status) THEN Val(u.status) ELSE @,
                !.started_at = IF IsSome(u.started_at) THEN u.started_at ELSE @,
                !.finished_at = IF IsSome(u.finished_at) THEN u.finished_at ELSE @,
                !.output = IF IsSome(u.output) THEN u.output ELSE @,
                !.error = IF IsSome(u.error) THEN u.error ELSE @]]

HasScheduled(rows, name) == \E i \in 1..Len(rows) : rows[i].job_name = name

\* Variant of UpsertScheduledJob: a plain INSERT, without the ON CONFLICT
\* clause, on a table that does not enforce the key.
InsertScheduledJob(rows, name, next_run) ==
    Append(rows, [job_name |-> name, next_run |-> next_run])

\* upsertScheduledJob(job): INSERT ... ON CONFLICT(job_name) DO UPDATE SET
\* next_run.
UpsertScheduledJob(rows, name, next_run) ==
    IF HasScheduled(rows, name)
    THEN [i \in 1..Len(rows) |->
            IF rows[i].job_name = name
            THEN [rows[i] EXCEPT !.next_run = next_run] ELSE rows[i]]
    ELSE Append(rows, [job_name |-> name, next_run |-> next_run])

\* Variant of RemoveScheduledJob: DELETE without the WHERE clause.
RemoveAllScheduledJobs(rows, name) == << >>

\* removeScheduledJob(jobName): DELETE WHERE job_name = jobName.
RemoveScheduledJob(rows, name) ==
    LET Keep(r) == r.job_name # name IN SelectSeq(rows, Keep)

\* getDueScheduledJobs(now): every row with next_run <= now (the method
\* takes no limit; a second argument passed by the caller is dropped).
GetDueScheduledJobs(rows, nowIso) ==
    LET Due(r) == r.next_run <= nowIso IN SelectSeq(rows, Due)

\* getNextScheduledRun(): the earliest next_run, or none.  The Scheduler
\* calls it (queue.ts 164); the JobDb class of types.ts does not define it,
\* so it is taken from the store contract of the specification.
GetNextScheduledRun(rows) ==
    IF rows = <<>> THEN None
    ELSE Some(CHOOSE t \in {rows[i].next_run : i \in 1..Len(rows)} :
                \A i \in 1..Len(rows) : t <= rows[i].next_run)

----------------------------------------------------------------------------
(* Scheduler (src/src/core/queue.ts 48-267) *)

\* The cap of the sleep interval and the fallback delay, in ms.
MaxDelay == 30000

DefaultDelay == 1000

\* const queueNames = ['high', 'default', 'low'] (constructor); also the
\* order of Object.keys(this.queues).
QueueNames == <<"high", "default", "low">>

QueueNameSet == {QueueNames[i] : i \in 1..Len(QueueNames)}

\* this.config.queues[queueName]?.priority ?? QueuePriority.Default, for a
\* configuration that gives the three queues the priorities of the enum.
ConfigPriority(queueName) ==
    CASE queueName = "high" -> QueuePriorityHigh
      [] queueName = "low" -> QueuePriorityLow
      [] OTHER -> QueuePriorityDefault

\* A job module of the jobs directory, as `new Exported()` shows it.
JobModule(name, queue, reschedule, rescheduleIn, runInProcess) ==
    [name |-> name, queue |-> queue, reschedule |-> reschedule,
     rescheduleIn |-> rescheduleIn, runInProcess |-> runInProcess,
     maxRetries |-> None, backoffStrategy |-> None,
     importThrows |-> FALSE]

\* The job module m with a declared retry policy.
RetryPolicy(m, maxRetries, backoffStrategy) ==
    [m EXCEPT !.maxRetries = maxRetries, !.backoffStrategy = backoffStrategy]

\* A file of the jobs directory whose import (or whose job constructor)
\* raises.
BrokenModule ==
    [JobModule(None, None, None, None, None) EXCEPT !.importThrows = TRUE]

\* The JobDefinition loadJobs builds from a job instance.
JobDef(m) ==
    [name |-> Val(m.name),
     queue |-> IF IsSome(m.queue) /\ Val(m.queue) # "" THEN Val(m.queue) ELSE "default",
     reschedule |-> IF IsSome(m.reschedule) THEN Val(m.reschedule) ELSE FALSE,
     rescheduleIn |-> m.rescheduleIn,
     maxRetries |-> m.maxRetries,
     backoffStrategy |-> m.backoffStrategy,
     runInProcess |-> IF IsSome(m.runInProcess) THEN Val(m.runInProcess) ELSE FALSE]

\* this.jobDefinitions[jobName] = jobDef
PutDef(defs, def) == (def.name :> def) @@ defs

\* The first next_run loadJobs gives a registered job.
InitialNextRun(def, t) ==
    IF def.reschedule /\ IsSome(def.rescheduleIn)
    THEN t + Val(def.rescheduleIn) ELSE t

\* `if (!jobName) { console.warn(...); continue; }`: nothing is registered
\* for the job class.
MissingName(st) == st

\* Variant of ImportFailed: the fault ends the load and discards what it
\* had registered.
ImportFailedAborts(st) == [defs |-> << >>, sched |-> << >>]

\* `catch (error) { console.error(...) }` inside the loop over the files:
\* the state of the load is left as it is and the loop goes on.
ImportFailed(st) == st

\* loadJobs(): the loop over the job files; st = [defs, sched].
\* The body of the loop of loadJobs() for the job class of module m.
LoadJob(m, st, t) ==
    IF m.importThrows THEN ImportFailed(st)
    ELSE IF ~IsSome(m.name) \/ Val(m.name) = ""
    THEN MissingName(st)
    ELSE LET def == JobDef(m) IN
         [defs |-> PutDef(st.defs, def),
          sched |-> UpsertScheduledJob(st.sched, def.name, InitialNextRun(def, t))]

\* The loop over more than one file is the loop over the first files, then
\* over the rest.  (The test on the rows holds always, an upsert removes no
\* row; it makes TLC evaluate the first part before the rest.)
RECURSIVE LoadJobs(_, _, _)
LoadJobs(fs, st, t) ==
    IF fs = <<>> THEN st
    ELSE IF Len(fs) = 1 THEN LoadJob(Head(fs), st, t)
    ELSE LET h == Len(fs) \div 2
             st1 == LoadJobs(SubSeq(fs, 1, h), st, t)
         IN IF Len(st1.sched) >= Len(st.sched)
            THEN LoadJobs(SubSeq(fs, h + 1, Len(fs)), st1, t)
            ELSE st1

\* Variant of MissingDefinition: the row ends the loop over the due rows.
MissingDefinitionEndsLoop(st) == [st EXCEPT !.threw = TRUE]

\* `if (!jobDef) { console.error(...); continue; }`: the state of the loop
\* over the due rows is left as it is.
MissingDefinition(st) == st

\* pollAndEnqueueJobs(): the body of the loop over the due rows, for one
\* row; st = [runs, queues, threw].  An enqueue into a queue the
\* constructor did not create is a TypeError that ends the loop, after the
\* insert.
PollRow(row, defs, st) ==
    IF row.job_name \notin DOMAIN defs
    THEN MissingDefinition(st)
    ELSE LET jobDef == defs[row.job_name]
             queueName == jobDef.queue
             priority == ConfigPriority(queueName)
             runs2 == InsertJobRun(st.runs,
                         [job_name |-> row.job_name, queue_name |-> queueName,
                          priority |-> priority, status |-> Pending])
             runId == LastInsertRowid(runs2)
         IN IF queueName \notin QueueNameSet
            THEN [runs |-> runs2, queues |-> st.queues, threw |-> TRUE]
            ELSE [runs |-> runs2,
                  queues |-> [st.queues EXCEPT ![queueName] =
                                Enqueue(@, jobDef, runId, priority)],
                  threw |-> FALSE]

\* The loop over more than one row is the loop over the first rows, then,
\* unless it was left by a TypeError, over the rest.
RECURSIVE PollRows(_, _, _)
PollRows(rows, defs, st) ==
    IF rows = <<>> \/ st.threw THEN st
    ELSE IF Len(rows) = 1 THEN PollRow(Head(rows), defs, st)
    ELSE LET h == Len(rows) \div 2 IN
         PollRows(SubSeq(rows, h + 1, Len(rows)), defs,
                  PollRows(SubSeq(rows, 1, h), defs, st))

\* Variant of ExitCodeMessage: the captured stderr is left out.
ExitCodeMessageNoStderr(exitCode, stderr) == Msg("Exit Code", exitCode, "")

\* new Error(`Exit Code ${exitCode}: ${stderr}`).message
ExitCodeMessage(exitCode, stderr) == Msg("Exit Code", exitCode, stderr)

\* The message of the Error a handler raises.
HandlerFaultMsg == Msg("Error", 0, "handler fault")

\* The try block of runNextJob up to the value of `result`:
\* [threw, thrown, value, message]; thrown and message are those of the
\* value raised, when one is.
Execute(jobDef, o) ==
    IF jobDef.runInProcess
    THEN [threw |-> o.threw, thrown |-> o.thrown, value |-> o.value,
          message |-> HandlerFaultMsg]
    ELSE IF o.exitCode = 0
         THEN LET p == JSONparse(o.stdout) IN
              [threw |-> p.threw, thrown |-> IF p.threw THEN "Error" ELSE "",
               value |-> p.value,
               message |-> Msg("SyntaxError", 0, "JSON Parse error")]
         ELSE [threw |-> TRUE, thrown |-> "Error", value |-> JsUndefined,
               message |-> ExitCodeMessage(o.exitCode, o.stderr)]

\* `result.status` on null or undefined raises a TypeError.
PropertyReadThrows(v) == v.t \in {"null", "undefined"}

\* result.output ? JSON.stringify(result.output) : undefined
OutputField(v) == IF Truthy(v.output) THEN Some(JSONstringify(v.output)) ELSE None

\* Variant of ShouldReschedule: the reschedule flag is not consulted.
ShouldRescheduleIgnoringFlag(jobDef, v) ==
    /\ v.status = Some(Success)
    /\ IsSome(jobDef.rescheduleIn)
    /\ Val(jobDef.rescheduleIn) # 0

\* Variant of ShouldReschedule: a Failed result of a job that declares
\* retries is scheduled again as well.
ShouldRescheduleOrRetry(jobDef, v) ==
    /\ jobDef.reschedule
    /\ IsSome(jobDef.rescheduleIn)
    /\ Val(jobDef.rescheduleIn) # 0
    /\ \/ v.status = Some(Success)
       \/ /\ v.status = Some(Failed)
          /\ IsSome(jobDef.maxRetries)
          /\ Val(jobDef.maxRetries) > 0

\* result.status === Success && jobDef.reschedule && jobDef.rescheduleIn
ShouldReschedule(jobDef, v) ==
    /\ v.status = Some(Success)
    /\ jobDef.reschedule
    /\ IsSome(jobDef.rescheduleIn)
    /\ Val(jobDef.rescheduleIn) # 0

\* The schedule table after the result was processed in the try block.
NextSchedule(rows, jobDef, v, t) ==
    IF ShouldReschedule(jobDef, v)
    THEN UpsertScheduledJob(rows, jobDef.name, t + Val(jobDef.rescheduleIn))
    ELSE RemoveScheduledJob(rows, jobDef.name)

\* The value the catch block of runNextJob receives: its kind and its
\* message; a failed property read of `result` raises a TypeError.
Caught(res) ==
    IF res.threw THEN [thrown |-> res.thrown, message |-> res.message]
    ELSE [thrown |-> "Error",
          message |-> Msg("TypeError", 0, "undefined is not an object")]

\* error.message in the catch block raises a TypeError when error is
\* undefined: the fault leaves runNextJob.
CatchThrows(c) == c.thrown = "undefined"

\* error.message in the catch block: undefined for a value that is not an
\* Error.
ErrorMessage(c) == IF c.thrown = "Error" THEN Some(c.message) ELSE None

\* The catch block of runNextJob; message is error.message, or <<>>.
CatchUpdates(message, t) ==
    Updates(Some(Failed), None, Some(t), None, message)

\* Variant of RunningUpdates: the start is stamped, the status is not set.
RunningUpdatesNoStatus(t) == Updates(None, Some(t), None, None, None)

\* The update runNextJob makes before the execution starts.
RunningUpdates(t) == Updates(Some(Running), Some(t), None, None, None)

\* Variant of NextQueueIndex: a queue is dispatched until it is empty.
DrainQueueIndex(i, items) == IF items = << >> THEN i + 1 ELSE i

\* `for (const queueName of Object.keys(this.queues))`: one runNextJob per
\* queue; items is what the queue holds when the call returns.
NextQueueIndex(i, items) == i + 1

\* Variant of AfterRejection: the rejection is not handled and ends the loop.
AfterRejectionUnhandled(next) == "dead"

\* `.catch(err => console.error(...))` on pollAndEnqueueJobs() and on each
\* runNextJob(): a rejection is logged and the loop goes on with what
\* follows the call.
AfterRejection(next) == next

\* The message of the Error a failing store operation raises.
StoreFaultMsg == Msg("Error", 0, "store fault")

\* Variant of Delay: Math.max(0, diff) without the cap of Math.min.
UncappedDelay(nextRun, t) ==
    IF IsSome(nextRun)
    THEN IF Val(nextRun) - t > 0 THEN Val(nextRun) - t ELSE 0
    ELSE DefaultDelay

\* Variant of Delay: Math.min(diff, 30_000) without the Math.max(0, ...).
RawDelay(nextRun, t) ==
    IF IsSome(nextRun)
    THEN IF Val(nextRun) - t < MaxDelay THEN Val(nextRun) - t ELSE MaxDelay
    ELSE DefaultDelay

\* The delay of the Sleep phase: 1000 when there is no next run, else
\* Math.max(0, Math.min(diff, 30_000)).
Delay(nextRun, t) ==
    IF IsSome(nextRun)
    THEN LET d == Val(nextRun) - t
             m == IF d < MaxDelay THEN d ELSE MaxDelay
         IN IF m > 0 THEN m ELSE 0
    ELSE DefaultDelay

----------------------------------------------------------------------------
(* The jobs directory *)

\* (reschedule, rescheduleIn) as job classes declare them.
Recurrences ==
    { [reschedule |-> None, rescheduleIn |-> None],
      [reschedule |-> Some(FALSE), rescheduleIn |-> Some(5000)],
      [reschedule |-> Some(TRUE), rescheduleIn |-> Some(5000)],
      [reschedule |-> Some(TRUE), rescheduleIn |-> Some(40000)],
      [reschedule |-> Some(TRUE), rescheduleIn |-> Some(0)],
      [reschedule |-> Some(TRUE), rescheduleIn |-> None] }

ModulesA ==
    { JobModule(Some("A"), q, r.reschedule, r.rescheduleIn, p) :
        q \in {None}, r \in Recurrences, p \in {None, Some(TRUE)} }

ModulesB ==
    { JobModule(Some("B"), None, None, None, None),
      JobModule(Some("B"), Some("high"), Some(TRUE), Some(5000), Some(TRUE)) }

Catalogues ==
    { << >> } \cup { <<a>> : a \in ModulesA } \cup { <<a, b>> : a \in ModulesA, b \in ModulesB }

\* Jobs directories with a recurring job A and a job B.
SmallCatalogues ==
    { <<JobModule(Some("A"), None, Some(TRUE), Some(5000), p), b>> :
        p \in {None, Some(TRUE)}, b \in ModulesB }

\* What table scheduled_jobs of the database file holds when the process
\* starts: nothing, or the row an earlier process left for a job "Z" whose
\* module is no longer in the jobs directory, due since a second.
StoredSchedules ==
    { << >>, << [job_name |-> "Z", next_run |-> 0 - 1000] >> }

\* How long one execution of a job takes, in ms.
ExecDurations == {0, 7000}

----------------------------------------------------------------------------
(* The scheduler as a state machine *)

\* The scheduler after its constructor, before start().
Constructed ==
    /\ now = 0
    /\ pc = "init"
    /\ jobDefinitions = << >>
    /\ jobRuns = << >>
    /\ queues = [q \in QueueNameSet |-> << >>]
    /\ qIdx = 0
    /\ cur = None
    /\ delay = None
    /\ diff = None
    /\ timerAt = 0
    /\ last = None
    /\ tick = 0
    /\ dequeued = [q \in QueueNameSet |-> 0]
    /\ dbOpen = TRUE
    /\ closedOps = 0
    /\ fault = None
    /\ inherited = 0
    /\ pq = << >>
    /\ pqCount = 0
    /\ pqPrev = << >>
    /\ pqOut = None

\* The scheduler constructed on a new database file.
Init ==
    /\ files \in Catalogues
    /\ scheduled = << >>
    /\ Constructed

\* start(): loadJobs(), then scheduleJobs() enters the first tick.
Start ==
    /\ pc = "init"
    /\ LET st == LoadJobs(files, [defs |-> jobDefinitions, sched |-> scheduled], now) IN
         /\ jobDefinitions' = st.defs
         /\ scheduled' = st.sched
    /\ pc' = "poll"
    /\ tick' = tick + 1
    /\ UNCHANGED <<now, files, jobRuns, queues, qIdx, cur, delay, diff, timerAt, last,
                   dequeued>>
    /\ UNCHANGED storeVars
    /\ UNCHANGED pqVars

\* The Poll phase of a tick: pollAndEnqueueJobs(); the model follows it
\* while the history holds at most maxRuns runs.
PollUpTo(maxRuns) ==
    /\ pc = "poll"
    /\ dbOpen
    /\ LET rows == GetDueScheduledJobs(scheduled, now)
           st == PollRows(rows, jobDefinitions,
                          [runs |-> jobRuns, queues |-> queues, threw |-> FALSE])
       IN /\ Len(st.runs) <= maxRuns
          /\ jobRuns' = st.runs
          /\ queues' = st.queues
    /\ pc' = "dispatch"
    /\ qIdx' = 1
    /\ UNCHANGED <<now, files, jobDefinitions, scheduled, cur, delay, diff, timerAt, last,
                   tick, dequeued>>
    /\ UNCHANGED storeVars
    /\ UNCHANGED pqVars

Poll == PollUpTo(MaxRuns)

\* runNextJob(queueName) on an empty queue: dequeue() is undefined, return.
DispatchEmpty ==
    /\ pc = "dispatch"
    /\ qIdx <= Len(QueueNames)
    /\ DequeueItem(queues[QueueNames[qIdx]]) = None
    /\ qIdx' = NextQueueIndex(qIdx, queues[QueueNames[qIdx]])
    /\ UNCHANGED <<now, pc, files, jobDefinitions, scheduled, jobRuns, queues,
                   cur, delay, diff, timerAt, last, tick, dequeued>>
    /\ UNCHANGED storeVars
    /\ UNCHANGED pqVars

\* runNextJob(queueName) up to the start of the execution: dequeue, mark the
\* run Running.
DispatchStart ==
    /\ pc = "dispatch"
    /\ dbOpen
    /\ qIdx <= Len(QueueNames)
    /\ LET q == QueueNames[qIdx]
           queueItem == DequeueItem(queues[q])
       IN /\ queueItem # None
          /\ queues' = [queues EXCEPT ![q] = DequeueRest(@)]
          /\ jobRuns' = UpdateJobRun(jobRuns, Val(queueItem).runId, RunningUpdates(now))
          /\ cur' = queueItem
          /\ dequeued' = [dequeued EXCEPT ![q] = @ + 1]
    /\ pc' = "running"
    /\ UNCHANGED <<now, files, jobDefinitions, scheduled, qIdx, delay, diff, timerAt, last, tick>>
    /\ UNCHANGED storeVars
    /\ UNCHANGED pqVars

\* runNextJob(queueName) from the end of the execution: the outcome o came
\* after `elapsed` ms; persist it and settle the schedule.
DispatchFinish(o, elapsed) ==
    /\ pc = "running"
    /\ dbOpen
    /\ LET jobDef == Val(cur).job
           runId == Val(cur).runId
           t == now + elapsed
           res == Execute(jobDef, o)
           caught == res.threw \/ PropertyReadThrows(res.value)
           c == Caught(res)
           v == res.value
       IN /\ o.mode = (IF jobDef.runInProcess THEN "inProcess" ELSE "subprocess")
          /\ now' = t
          /\ jobRuns' =
               IF caught
               THEN IF CatchThrows(c) THEN jobRuns
                    ELSE UpdateJobRun(jobRuns, runId, CatchUpdates(ErrorMessage(c), t))
               ELSE UpdateJobRun(jobRuns, runId,
                       Updates(v.status, None, Some(t), OutputField(v), v.error))
          /\ scheduled' =
               IF caught THEN scheduled ELSE NextSchedule(scheduled, jobDef, v, t)
          /\ last' = Some([job |-> jobDef, runId |-> runId, outcome |-> o,
                           caught |-> caught, value |-> v, T |-> t,
                           startedAt |-> now,
                           written |-> IF caught THEN None ELSE v.status,
                           escaped |-> caught /\ CatchThrows(c)])
          /\ pc' = IF caught /\ CatchThrows(c) THEN AfterRejection("dispatch")
                   ELSE "dispatch"
    /\ cur' = None
    /\ qIdx' = NextQueueIndex(qIdx, queues[QueueNames[qIdx]])
    /\ UNCHANGED <<files, jobDefinitions, queues, delay, diff, timerAt, tick, dequeued>>
    /\ UNCHANGED storeVars
    /\ UNCHANGED pqVars

\* The Sleep phase of a tick: compute the delay and arm the timer.
Sleep ==
    /\ pc = "dispatch"
    /\ dbOpen
    /\ qIdx > Len(QueueNames)
    /\ LET nextRunIso == GetNextScheduledRun(scheduled) IN
         /\ diff' = IF IsSome(nextRunIso) THEN Some(Val(nextRunIso) - now) ELSE None
         /\ delay' = Some(Delay(nextRunIso, now))
         /\ timerAt' = now + Delay(nextRunIso, now)
    /\ pc' = "timer"
    /\ UNCHANGED <<now, files, jobDefinitions, scheduled, jobRuns, queues, qIdx, cur, last,
                   tick, dequeued>>
    /\ UNCHANGED storeVars
    /\ UNCHANGED pqVars

\* The timer fires and the next tick begins.
Wake ==
    /\ pc = "timer"
    /\ tick < MaxTicks
    /\ tick' = tick + 1
    /\ now' = timerAt
    /\ pc' = "poll"
    /\ dequeued' = [q \in QueueNameSet |-> 0]
    /\ UNCHANGED <<files, jobDefinitions, scheduled, jobRuns, queues, qIdx, cur,
                   delay, diff, timerAt, last>>
    /\ UNCHANGED storeVars
    /\ UNCHANGED pqVars

\* The steps of the scheduler when the executions of jobs end as one of
\* outcomes.
NextWith(outcomes) ==
    \/ Start
    \/ Poll
    \/ DispatchEmpty
    \/ DispatchStart
    \/ \E o \in outcomes, e \in ExecDurations : DispatchFinish(o, e)
    \/ Sleep
    \/ Wake

Next == NextWith(InProcessOutcomes \cup SubprocessOutcomes)

Spec == Init /\ [][Next]_vars

----------------------------------------------------------------------------
(* A scheduler started on the database file of an earlier process *)

\* The scheduler constructed on a database file that may hold rows.
InitStored ==
    /\ files \in SmallCatalogues
    /\ scheduled \in StoredSchedules
    /\ Constructed

SpecStored == InitStored /\ [][Next]_vars

----------------------------------------------------------------------------
(* Jobs directories with files that do not give a job *)

\* The files: two job modules, a job class without a name, one whose name
\* is the empty string, and a file that cannot be imported.
LoadModules ==
    { JobModule(Some("A"), None, None, None, None),
      JobModule(Some("B"), Some("high"), Some(TRUE), Some(5000), Some(TRUE)),
      JobModule(None, None, None, None, None),
      JobModule(Some(""), None, None, None, None),
      BrokenModule }

\* The jobs directories of up to MaxFiles of these files, in any order.
LoadCatalogues ==
    UNION { [1..n -> LoadModules] : n \in 0..MaxFiles }

InitLoad ==
    /\ files \in LoadCatalogues
    /\ scheduled = << >>
    /\ Constructed

\* start(), then the first Poll.
NextLoad ==
    \/ Start
    \/ Poll

SpecLoad == InitLoad /\ [][NextLoad]_vars

----------------------------------------------------------------------------
(* Jobs that declare a retry policy *)

\* (maxRetries, backoffStrategy) as job classes declare them.
RetryPolicies ==
    { [maxRetries |-> None, backoffStrategy |-> None],
      [maxRetries |-> Some(0), backoffStrategy |-> Some("linear")],
      [maxRetries |-> Some(3), backoffStrategy |-> Some("exponential")] }

\* The jobs directories of SmallCatalogues, job A with each retry policy.
RetryCatalogues ==
    { <<RetryPolicy(c[1], r.maxRetries, r.backoffStrategy), c[2]>> :
        c \in SmallCatalogues, r \in RetryPolicies }

\* The executions that end with a result of status Success, Failed or
\* Retrying, or with a fault, in each execution mode.
RetryOutcomes ==
    { o \in InProcessOutcomes :
        \/ ~o.threw /\ o.value.t = "object"
        \/ o.thrown = "Error" }
    \cup
    { o \in SubprocessOutcomes :
        \/ o.exitCode = 0 /\ o.stdout \in { "{\"status\":2}",
                                            "{\"status\":3,\"error\":\"job failed\"}" }
        \/ o.exitCode = 1 /\ o.stdout = "" }

InitRetry ==
    /\ files \in RetryCatalogues
    /\ scheduled = << >>
    /\ Constructed

SpecRetry == InitRetry /\ [][NextWith(RetryOutcomes)]_vars

----------------------------------------------------------------------------
(* Jobs that declare a queue of their own *)

\* The queue names job A declares: none, one of the three queues the
\* constructor creates, and a name it does not create.
DeclaredQueues == {None, Some("low"), Some("bulk")}

\* Jobs directories with a one-shot job A in each of these queues and a
\* one-shot job B in the default queue, in both orders.
QueueCatalogues ==
    { <<JobModule(Some("A"), q, None, None, p), JobModule(Some("B"), None, None, None, None)>> :
        q \in DeclaredQueues, p \in {None, Some(TRUE)} }
    \cup
    { <<JobModule(Some("B"), None, None, None, None), JobModule(Some("A"), q, None, None, p)>> :
        q \in DeclaredQueues, p \in {None, Some(TRUE)} }

InitQueues ==
    /\ files \in QueueCatalogues
    /\ scheduled = << >>
    /\ Constructed

SpecQueues == InitQueues /\ [][NextWith(RetryOutcomes)]_vars

----------------------------------------------------------------------------
(* Fair ticking: the timer fires, every execution ends *)

\* Jobs directories with two one-shot jobs that share the default queue.
LiveCatalogues ==
    { <<JobModule(Some("A"), None, None, None, p),
        JobModule(Some("B"), None, None, None, None)>> : p \in {None, Some(TRUE)} }

\* The executions that end with a result object: of status Success, Failed
\* or Retrying in-process, of status Success or Failed or without a status
\* on the stdout of a subprocess.
LiveOutcomes ==
    { o \in InProcessOutcomes : ~o.threw /\ o.value.t = "object" }
    \cup
    { o \in SubprocessOutcomes :
        /\ o.exitCode = 0
        /\ o.stdout \in { "{\"status\":2}", "{\"status\":3,\"error\":\"job failed\"}", "{}" } }

InitLive ==
    /\ files \in LiveCatalogues
    /\ scheduled = << >>
    /\ Constructed

NextLive == NextWith(LiveOutcomes)

\* setTimeout fires its callback and every awaited call returns: a step of
\* the loop that can be taken is taken.
SpecLive == InitLive /\ [][NextLive]_vars /\ WF_vars(NextLive)

----------------------------------------------------------------------------
(* The process ends and a new one is started on the same database file *)

\* Variant of NewQueues: the queues of the process that ended are taken
\* over.
KeptQueues == queues

\* `this.queues = {}` and `new PriorityQueue()` for each of the three
\* names: the queues of a new Scheduler.
NewQueues == [q \in QueueNameSet |-> << >>]

\* The process ends at any point after start() (a crash, a kill, or an
\* exit after stop()) and `new Scheduler()` is run again: the fields of the
\* object are new, the tables of the database file are as they were left.
Restart ==
    /\ pc # "init"
    /\ tick < MaxTicks
    /\ pc' = "init"
    /\ jobDefinitions' = << >>
    /\ queues' = NewQueues
    /\ qIdx' = 0
    /\ cur' = None
    /\ delay' = None
    /\ diff' = None
    /\ timerAt' = 0
    /\ dequeued' = [q \in QueueNameSet |-> 0]
    /\ dbOpen' = TRUE
    /\ inherited' = Len(jobRuns)
    /\ UNCHANGED <<now, files, scheduled, jobRuns, last, tick, closedOps, fault>>
    /\ UNCHANGED pqVars

NextRestart ==
    \/ NextWith(RetryOutcomes)
    \/ Restart

InitRestart ==
    /\ files \in SmallCatalogues
    /\ scheduled = << >>
    /\ Constructed

SpecRestart == InitRestart /\ [][NextRestart]_vars

----------------------------------------------------------------------------
(* Store operations that fail, and stop() *)

\* The record of a store fault raised at the current position of the loop;
\* row is the index of the due row whose insert raised, 0 for another
\* operation.
FaultAt(phase) ==
    Some([phase |-> phase, tick |-> tick, qIdx |-> qIdx, row |-> 0,
          n |-> IF IsSome(fault) THEN Val(fault).n + 1 ELSE 1])

\* Number of store faults raised so far.
FaultCount == IF IsSome(fault) THEN Val(fault).n ELSE 0

\* Store operations issued after closeDb(), n more of them.
IssueOps(n) == closedOps' = IF dbOpen THEN closedOps ELSE closedOps + n

\* pollAndEnqueueJobs() when a store operation raises: the query for the
\* due rows (k = 0), or the insertJobRun of the k-th due row.  The rows
\* before it are admitted, the rows after it are not looked at.
PollFault(k) ==
    /\ pc = "poll"
    /\ LET rows == GetDueScheduledJobs(scheduled, now) IN
         /\ k \in 0..Len(rows)
         /\ k > 0 => rows[k].job_name \in DOMAIN jobDefinitions
         /\ LET st == IF k = 0
                      THEN [runs |-> jobRuns, queues |-> queues, threw |-> FALSE]
                      ELSE PollRows(SubSeq(rows, 1, k - 1), jobDefinitions,
                                    [runs |-> jobRuns, queues |-> queues, threw |-> FALSE])
            IN /\ ~st.threw
               /\ jobRuns' = st.runs
               /\ queues' = st.queues
    /\ pc' = AfterRejection("dispatch")
    /\ qIdx' = 1
    /\ fault' = Some([Val(FaultAt("poll")) EXCEPT !.row = k])
    /\ IssueOps(1)
    /\ UNCHANGED <<now, files, jobDefinitions, scheduled, cur, delay, diff, timerAt, last,
                   tick, dequeued, dbOpen, inherited>>
    /\ UNCHANGED pqVars

\* runNextJob(queueName) when the update to Running raises: the item is
\* dequeued, the job is not executed, the rejection leaves runNextJob.
DispatchStartFault ==
    /\ pc = "dispatch"
    /\ qIdx <= Len(QueueNames)
    /\ LET q == QueueNames[qIdx] IN
         /\ DequeueItem(queues[q]) # None
         /\ queues' = [queues EXCEPT ![q] = DequeueRest(@)]
         /\ dequeued' = [dequeued EXCEPT ![q] = @ + 1]
         /\ qIdx' = NextQueueIndex(qIdx, DequeueRest(queues[q]))
    /\ pc' = AfterRejection("dispatch")
    /\ fault' = FaultAt("dispatch")
    /\ IssueOps(1)
    /\ UNCHANGED <<now, files, jobDefinitions, scheduled, jobRuns, cur, delay, diff,
                   timerAt, last, tick, dbOpen, inherited>>
    /\ UNCHANGED pqVars

\* Where a store operation of runNextJob raises after the execution:
\*   "result"         the update with the result; the catch block records it
\*   "resultCatch"    the update with the result, then the update of the
\*                    catch block
\*   "schedule"       the upsert or remove of the schedule entry; the catch
\*                    block records it
\*   "scheduleCatch"  the upsert or remove, then the update of the catch block
\*   "catch"          the update of the catch block, after a fault of the job
FaultPoints == {"result", "resultCatch", "schedule", "scheduleCatch", "catch"}

\* The fault points at which the rejection leaves runNextJob.
Escaping == {"resultCatch", "scheduleCatch", "catch"}

\* runNextJob(queueName) from the end of the execution, when a store
\* operation raises at fault point f.
DispatchFinishFault(o, elapsed, f) ==
    /\ pc = "running"
    /\ LET jobDef == Val(cur).job
           runId == Val(cur).runId
           t == now + elapsed
           res == Execute(jobDef, o)
           caught == res.threw \/ PropertyReadThrows(res.value)
           c == Caught(res)
           v == res.value
           withResult == UpdateJobRun(jobRuns, runId,
                            Updates(v.status, None, Some(t), OutputField(v), v.error))
       IN /\ o.mode = (IF jobDef.runInProcess THEN "inProcess" ELSE "subprocess")
          /\ IF caught THEN f = "catch" /\ ~CatchThrows(c) ELSE f # "catch"
          /\ now' = t
          /\ jobRuns' =
               CASE f = "result" ->
                      UpdateJobRun(jobRuns, runId, CatchUpdates(Some(StoreFaultMsg), t))
                 [] f = "schedule" ->
                      UpdateJobRun(withResult, runId, CatchUpdates(Some(StoreFaultMsg), t))
                 [] f = "scheduleCatch" -> withResult
                 [] OTHER -> jobRuns
          /\ last' = Some([job |-> jobDef, runId |-> runId, outcome |-> o,
                           caught |-> TRUE, value |-> v, T |-> t,
                           startedAt |-> now,
                           written |-> IF f \in {"schedule", "scheduleCatch"}
                                       THEN v.status ELSE None,
                           escaped |-> f \in Escaping])
          /\ pc' = IF f \in Escaping THEN AfterRejection("dispatch") ELSE "dispatch"
          /\ IssueOps(IF f \in {"result", "catch"} THEN 1 ELSE 2)
    /\ cur' = None
    /\ qIdx' = NextQueueIndex(qIdx, queues[QueueNames[qIdx]])
    /\ fault' = FaultAt("dispatch")
    /\ UNCHANGED <<files, jobDefinitions, scheduled, queues, delay, diff, timerAt, tick,
                   dequeued, dbOpen, inherited>>
    /\ UNCHANGED pqVars

\* The Sleep phase when getNextScheduledRun() raises: the await is not in a
\* try block and loop() has no handler, so setTimeout is not reached.
SleepFault ==
    /\ pc = "dispatch"
    /\ qIdx > Len(QueueNames)
    /\ pc' = "dead"
    /\ fault' = FaultAt("sleep")
    /\ IssueOps(1)
    /\ UNCHANGED <<now, files, jobDefinitions, scheduled, jobRuns, queues, qIdx, cur,
                   delay, diff, timerAt, last, tick, dequeued, dbOpen, inherited>>
    /\ UNCHANGED pqVars

\* The field no statement assigns: it is null whenever stop() reads it.
pollingIntervalId == None

\* stop(), called while the loop waits for its timer or for a job:
\* clearInterval only if pollingIntervalId is set, then closeDb().  The
\* handle of setTimeout(loop, delay) is not kept, so the timer stays armed.
Stop ==
    /\ pc \in {"timer", "running"}
    /\ dbOpen
    /\ dbOpen' = FALSE
    /\ pc' = IF IsSome(pollingIntervalId) /\ pc = "timer" THEN "stopped" ELSE pc
    /\ UNCHANGED <<now, files, jobDefinitions, scheduled, jobRuns, queues, qIdx, cur,
                   delay, diff, timerAt, last, tick, dequeued, closedOps, fault, inherited>>
    /\ UNCHANGED pqVars

\* The executions that are followed by a store fault: a Success result and
\* a fault of the job, in each execution mode.
FaultOutcomes ==
    { o \in InProcessOutcomes :
        \/ o.value = ResObj(Some(Success), OkObj, None)
        \/ o.thrown = "Error" }
    \cup
    { o \in SubprocessOutcomes :
        /\ o.stderr = ""
        /\ o.stdout \in {"{\"status\":2}", ""}
        /\ o.exitCode \in {0, 2} }

InitFaults ==
    /\ Init
    /\ files \in SmallCatalogues

\* Store operations of the Poll and Dispatch phases may raise, at most
\* MaxFaults times in a run of the model.
NextFaults ==
    \/ NextWith(FaultOutcomes)
    \/ FaultCount < MaxFaults /\ \E k \in 0..MaxRuns : PollFault(k)
    \/ FaultCount < MaxFaults /\ DispatchStartFault
    \/ FaultCount < MaxFaults
          /\ \E o \in FaultOutcomes, e \in ExecDurations, f \in FaultPoints :
                DispatchFinishFault(o, e, f)

SpecFaults == InitFaults /\ [][NextFaults]_vars

\* Store operations of every phase may raise.
NextStoreFaults ==
    \/ NextFaults
    \/ FaultCount < MaxFaults /\ SleepFault

SpecStoreFaults == InitFaults /\ [][NextStoreFaults]_vars

\* stop() may be called; once the connection is closed every store
\* operation raises.
NextStop ==
    \/ NextWith(FaultOutcomes)
    \/ Stop
    \/ ~dbOpen /\ PollFault(0)
    \/ ~dbOpen /\ DispatchStartFault
    \/ ~dbOpen /\ \E o \in FaultOutcomes, e \in ExecDurations,
                     f \in {"resultCatch", "catch"} : DispatchFinishFault(o, e, f)
    \/ ~dbOpen /\ SleepFault

SpecStop == Init /\ [][NextStop]_vars

----------------------------------------------------------------------------
(* A jobs directory with more modules than one Poll is meant to admit *)

\* The limit pollAndEnqueueJobs passes to getDueScheduledJobs.
BatchLimit == 50

\* Names of job classes.
BatchNames ==
    << "J01", "J02", "J03", "J04", "J05", "J06", "J07", "J08",
       "J09", "J10", "J11", "J12", "J13", "J14", "J15", "J16",
       "J17", "J18", "J19", "J20", "J21", "J22", "J23", "J24",
       "J25", "J26", "J27", "J28", "J29", "J30", "J31", "J32",
       "J33", "J34", "J35", "J36", "J37", "J38", "J39", "J40",
       "J41", "J42", "J43", "J44", "J45", "J46", "J47", "J48",
       "J49", "J50", "J51", "J52", "J53", "J54", "J55" >>

\* The first n names, each a module with the defaults of a job class.
BatchCatalogue(n) ==
    [i \in 1..n |-> JobModule(Some(BatchNames[i]), None, None, None, None)]

InitBatch ==
    /\ files \in { BatchCatalogue(n) : n \in 0..MaxBatch }
    /\ scheduled = << >>
    /\ Constructed

PollBatch == PollUpTo(MaxBatch)

NextBatch ==
    \/ Start
    \/ PollBatch

SpecBatch == InitBatch /\ [][NextBatch]_vars

----------------------------------------------------------------------------
(* A stand-alone PriorityQueue driven by arbitrary enqueue and dequeue calls *)

PQPriorities == {0, 1, 2}

InitPQ ==
    /\ Init
    /\ files = << >>

PQEnqueue(priority) ==
    /\ Len(pq) < MaxPQLen
    /\ pqCount < MaxPQEnq
    /\ pqCount' = pqCount + 1
    /\ pq' = Enqueue(pq, "job", pqCount + 1, priority)
    /\ UNCHANGED <<pqPrev, pqOut>>
    /\ UNCHANGED schedVars

PQDequeue ==
    /\ pqPrev' = pq
    /\ pqOut' = DequeueItem(pq)
    /\ pq' = DequeueRest(pq)
    /\ UNCHANGED pqCount
    /\ UNCHANGED schedVars

NextPQ ==
    \/ \E p \in PQPriorities : PQEnqueue(p)
    \/ PQDequeue

SpecPQ == InitPQ /\ [][NextPQ]_vars

----------------------------------------------------------------------------
(* Properties *)

\* The job_runs row of the last finished dispatch.
LastRun == jobRuns[Val(last).runId]

\* The last finished dispatch produced a result object with status Success.
LastSucceeded ==
    /\ IsSome(last)
    /\ ~Val(last).caught
    /\ Val(last).value.status = Some(Success)

\* (priority, enqueue order) of item a is not after that of item b.
NotAfter(a, b) ==
    \/ a.priority < b.priority
    \/ a.priority = b.priority /\ a.runId <= b.runId

\* C1: a dequeue returns, among the items present, the one with the lowest
\* priority value and, among those of equal priority, the one enqueued
\* first; an empty queue returns nothing; the items stay sorted that way.
C1_DequeueOrder ==
    /\ \A i, j \in 1..Len(pq) : i <= j => NotAfter(pq[i], pq[j])
    /\ pqPrev = << >> => pqOut = None
    /\ pqPrev # << >> =>
         /\ IsSome(pqOut)
         /\ \E i \in 1..Len(pqPrev) : pqPrev[i] = Val(pqOut)
         /\ \A i \in 1..Len(pqPrev) : NotAfter(Val(pqOut), pqPrev[i])

\* A dequeue took the first of two items of equal priority while an item of
\* a larger priority that was enqueued before both was waiting.
C1_Witness ==
    /\ IsSome(pqOut)
    /\ \E i, j \in 1..Len(pqPrev) :
         /\ pqPrev[i].priority = Val(pqOut).priority
         /\ pqPrev[i].runId > Val(pqOut).runId
         /\ pqPrev[j].priority > Val(pqOut).priority
         /\ pqPrev[j].runId < Val(pqOut).runId

UpsertTimes == {now, now + 5000}

\* C2: the schedule table never holds two rows of one job name; an upsert
\* leaves exactly one row of the name, holding the new next_run, and a
\* second identical upsert changes nothing.
C2_UniqueScheduledEntry ==
    /\ \A i, j \in 1..Len(scheduled) :
         scheduled[i].job_name = scheduled[j].job_name => i = j
    /\ \A n \in {"A", "B"}, t \in UpsertTimes :
         LET u == UpsertScheduledJob(scheduled, n, t) IN
           /\ Cardinality({i \in 1..Len(u) : u[i].job_name = n}) = 1
           /\ \A i \in 1..Len(u) : u[i].job_name = n => u[i].next_run = t
           /\ UpsertScheduledJob(u, n, t) = u

\* A reschedule has overwritten the row the loader had seeded, next to the
\* row of another job.
C2_Witness ==
    /\ LastSucceeded
    /\ ShouldReschedule(Val(last).job, Val(last).value)
    /\ Len(scheduled) = 2
    /\ \E i \in 1..Len(scheduled) :
         /\ scheduled[i].job_name = Val(last).job.name
         /\ scheduled[i].next_run = Val(last).T + Val(Val(last).job.rescheduleIn)
         /\ scheduled[i].next_run # InitialNextRun(Val(last).job, 0)

\* C3: after a run of a recurring job (reschedule = true, rescheduleIn = D)
\* returned Success, the job's entry has next_run = T + D, T the clock when
\* the result was processed, which is at least D after the run's start.
C3_RescheduledAtCompletion ==
    (/\ LastSucceeded
     /\ Val(last).job.reschedule
     /\ IsSome(Val(last).job.rescheduleIn))
    => \E i \in 1..Len(scheduled) :
         /\ scheduled[i].job_name = Val(last).job.name
         /\ scheduled[i].next_run = Val(last).T + Val(Val(last).job.rescheduleIn)
         /\ scheduled[i].next_run >= Val(last).startedAt + Val(Val(last).job.rescheduleIn)

\* C4: after a run of a one-shot job (reschedule = false) returned Success,
\* the schedule table holds no row of that job name.
C4_OneShotSuccessRemoved ==
    (LastSucceeded /\ ~Val(last).job.reschedule)
    => ~HasScheduled(scheduled, Val(last).job.name)

\* A one-shot job that declares a rescheduleIn has succeeded while the
\* entry of another job is still in the table.
C4_Witness ==
    /\ LastSucceeded
    /\ ~Val(last).job.reschedule
    /\ IsSome(Val(last).job.rescheduleIn)
    /\ LastRun.status = Success
    /\ Len(scheduled) = 1

\* C5: after a run whose outcome is not Success (a Failed result, a fault,
\* a non-zero exit, unparsable output) the job's entry has been removed.
C5_FailedRunRemoved ==
    (IsSome(last) /\ ~LastSucceeded)
    => ~HasScheduled(scheduled, Val(last).job.name)

\* C6: once a run of a one-shot job has status Success, no JobRun of that
\* job is inserted and no JobRun of that job is set Running any more.
C6_OneShotNeverAgain ==
    [][\A i \in 1..Len(jobRuns) :
          (/\ jobRuns[i].status = Success
           /\ ~jobDefinitions[jobRuns[i].job_name].reschedule)
          => \A k \in 1..Len(jobRuns') :
               jobRuns'[k].job_name = jobRuns[i].job_name
               => /\ k <= Len(jobRuns)
                  /\ jobRuns'[k].status = Running => jobRuns[k].status = Running]_vars

\* C7: the delay computed in the Sleep phase is within 0..30000 ms.
C7_SleepWithinBounds ==
    IsSome(delay) => Val(delay) >= 0 /\ Val(delay) <= MaxDelay

\* The earliest next_run was in the past when the delay was computed.
C7_Witness ==
    /\ IsSome(diff)
    /\ Val(diff) < 0
    /\ delay = Some(0)

\* The last finished dispatch ran a subprocess.
LastSubprocess == IsSome(last) /\ Val(last).outcome.mode = "subprocess"

\* C8: a subprocess that exits 0 with a result object of status Success and
\* an output payload on stdout gives a run with status Success, a finish
\* timestamp and the serialized payload as output.
C8_SubprocessSuccess ==
    (/\ LastSubprocess
     /\ Val(last).outcome.exitCode = 0
     /\ ~JSONparse(Val(last).outcome.stdout).threw
     /\ Val(last).value.t = "object"
     /\ Val(last).value.status = Some(Success)
     /\ Val(last).value.output # Undefined)
    => /\ LastRun.status = Success
       /\ IsSome(LastRun.finished_at)
       /\ LastRun.output = Some(JSONstringify(Val(last).value.output))

\* C9: a subprocess that exits non-zero gives a run with status Failed, a
\* finish timestamp and an error message that holds the exit code and the
\* captured stderr, whatever is on stdout.
C9_NonZeroExitFailed ==
    (LastSubprocess /\ Val(last).outcome.exitCode # 0)
    => /\ LastRun.status = Failed
       /\ IsSome(LastRun.finished_at)
       /\ IsSome(LastRun.error)
       /\ Val(LastRun.error).code = Val(last).outcome.exitCode
       /\ Val(LastRun.error).text = Val(last).outcome.stderr

\* Exit code 1 with "boom" on stderr and a Success result on stdout.
C9_Witness ==
    /\ LastSubprocess
    /\ Val(last).outcome.exitCode = 1
    /\ Val(last).outcome.stderr = "boom"
    /\ ~JSONparse(Val(last).outcome.stdout).threw
    /\ LastRun.status = Failed

\* C10: a subprocess that exits 0 with a stdout that is not a JSON result
\* object gives a run with status Failed and an error message.
C10_UnparsableOutputFailed ==
    (/\ LastSubprocess
     /\ Val(last).outcome.exitCode = 0
     /\ \/ JSONparse(Val(last).outcome.stdout).threw
        \/ JSONparse(Val(last).outcome.stdout).value.t # "object")
    => /\ LastRun.status = Failed
       /\ IsSome(LastRun.error)

\* The last finished dispatch ran a handler in-process and the handler
\* (constructor or run) raised a fault.
LastInProcessFault ==
    /\ IsSome(last)
    /\ Val(last).job.runInProcess
    /\ Val(last).outcome.threw

\* C11: when an in-process handler raises a fault, the run ends Failed with
\* a finish timestamp and the fault's message, the fault does not leave the
\* dispatch step, and the tick goes on with the next queue (and, after the
\* last queue, with its sleep).
C11_InProcessFaultFailed ==
    LastInProcessFault
    => /\ LastRun.status = Failed
       /\ IsSome(LastRun.finished_at)
       /\ LastRun.error = Some(HandlerFaultMsg)
       /\ ~Val(last).escaped
       /\ pc \in {"dispatch", "running", "timer", "poll"}

\* The part of C11 that holds for every fault: a fault that is an Error is
\* recorded with its message, and no fault stops the tick.
C11_ErrorFaultFailed ==
    LastInProcessFault
    => /\ pc \in {"dispatch", "running", "timer", "poll"}
       /\ Val(last).outcome.thrown = "Error"
          => /\ LastRun.status = Failed
             /\ LastRun.error = Some(HandlerFaultMsg)
             /\ ~Val(last).escaped


\* C15: a run is inserted Pending without timestamps; it is Running with a
\* start timestamp while its job executes; a Pending run only ever becomes
\* Running (with a start timestamp); and a run gets its finish timestamp
\* only at the end of its execution, from status Running.
C15_RunLifecycle ==
    /\ [](pc = "running" =>
            /\ IsSome(cur)
            /\ jobRuns[Val(cur).runId].status = Running
            /\ IsSome(jobRuns[Val(cur).runId].started_at)
            /\ ~IsSome(jobRuns[Val(cur).runId].finished_at))
    /\ [][\A i \in 1..Len(jobRuns') :
            IF i > Len(jobRuns)
            THEN /\ jobRuns'[i].status = Pending
                 /\ ~IsSome(jobRuns'[i].started_at)
                 /\ ~IsSome(jobRuns'[i].finished_at)
            ELSE /\ jobRuns[i].status = Pending
                    => \/ jobRuns'[i] = jobRuns[i]
                       \/ /\ jobRuns'[i].status = Running
                          /\ IsSome(jobRuns'[i].started_at)
                          /\ ~IsSome(jobRuns'[i].finished_at)
                 /\ (IsSome(jobRuns'[i].finished_at) /\ ~IsSome(jobRuns[i].finished_at))
                    => /\ jobRuns[i].status = Running
                       /\ pc = "running"
                       /\ Val(cur).runId = i
                       /\ pc' # "running"]_vars

\* A run went Pending, Running, Success and has both timestamps, while a
\* later run is still Pending.
C15_Witness ==
    /\ IsSome(last)
    /\ LastRun.status = Success
    /\ IsSome(LastRun.started_at)
    /\ IsSome(LastRun.finished_at)
    /\ \E i \in 1..Len(jobRuns) : jobRuns[i].status = Pending


\* C16: every run with a finish timestamp has status Success or Failed,
\* whatever status field the job's result carries.
C16_FinishedIsTerminal ==
    \A i \in 1..Len(jobRuns) :
        IsSome(jobRuns[i].finished_at) => jobRuns[i].status \in {Success, Failed}


\* C17: no step deletes a run or changes the id or job of one, every run
\* inserted gets an id greater than every id assigned before it, and so
\* the ids of the history are pairwise different.
C17_HistoryOnlyGrows ==
    /\ [](\A i, j \in 1..Len(jobRuns) : i < j => jobRuns[i].id < jobRuns[j].id)
    /\ [][/\ Len(jobRuns') >= Len(jobRuns)
          /\ \A i \in 1..Len(jobRuns) :
                /\ jobRuns'[i].id = jobRuns[i].id
                /\ jobRuns'[i].job_name = jobRuns[i].job_name
          /\ \A k \in (Len(jobRuns) + 1)..Len(jobRuns') :
                \A i \in 1..Len(jobRuns) : jobRuns[i].id < jobRuns'[k].id]_vars

\* Three runs are in the history, the first of them finished, and stop()
\* has closed the store.
C17_Witness ==
    /\ Len(jobRuns) = 3
    /\ IsSome(jobRuns[1].finished_at)
    /\ jobRuns[3].id = 3
    /\ ~dbOpen


DueWithoutDefinition(row) ==
    /\ row.next_run <= now
    /\ row.job_name \notin DOMAIN jobDefinitions

\* C20: a Poll inserts no run and enqueues no item for a due entry whose
\* job has no loaded definition, and admits every other due entry (one new
\* Pending run with its item in a queue); no step changes or removes an
\* entry whose job has no definition, so it stays due.
C20_UnknownJobSkipped ==
    /\ [][(pc = "poll" /\ pc' = "dispatch")
          => LET due == GetDueScheduledJobs(scheduled, now)
                 new == (Len(jobRuns) + 1)..Len(jobRuns')
             IN \A i \in 1..Len(due) :
                  IF DueWithoutDefinition(due[i])
                  THEN /\ \A k \in new : jobRuns'[k].job_name # due[i].job_name
                       /\ \A q \in QueueNameSet : \A j \in 1..Len(queues'[q]) :
                             queues'[q][j].job.name # due[i].job_name
                  ELSE \E k \in new :
                        /\ jobRuns'[k].job_name = due[i].job_name
                        /\ jobRuns'[k].status = Pending
                        /\ \E j \in 1..Len(queues'[jobRuns'[k].queue_name]) :
                              queues'[jobRuns'[k].queue_name][j].runId = jobRuns'[k].id]_vars
    /\ [][\A i \in 1..Len(scheduled) :
            scheduled[i].job_name \notin DOMAIN jobDefinitions'
            => \E j \in 1..Len(scheduled') : scheduled'[j] = scheduled[i]]_vars

\* The second Poll (or a later one) has just skipped the due entry of the
\* unknown job "Z", first in the table, and admitted another entry.
C20_Witness ==
    /\ pc = "dispatch"
    /\ qIdx = 1
    /\ tick >= 2
    /\ scheduled # << >>
    /\ DueWithoutDefinition(scheduled[1])
    /\ jobRuns # << >>
    /\ jobRuns[Len(jobRuns)].status = Pending
    /\ \A k \in 1..Len(jobRuns) : jobRuns[k].job_name # "Z"


\* Number of items in all the queues of s.
QueuedItems(s) == Len(s["high"]) + Len(s["default"]) + Len(s["low"])

\* C19: one Poll inserts at most 50 runs and enqueues at most 50 items,
\* however many entries are due.
C19_PollBatchLimit ==
    [][(pc = "poll" /\ pc' = "dispatch")
       => /\ Len(jobRuns') - Len(jobRuns) <= BatchLimit
          /\ QueuedItems(queues') - QueuedItems(queues) <= BatchLimit]_vars


\* A store fault was raised in the current tick.
FaultThisTick == IsSome(fault) /\ Val(fault).tick = tick

\* C12: a store fault raised in the Poll phase or in the dispatch of one
\* queue does not end the loop: after a fault in Poll the tick is in its
\* Dispatch phase or has armed its timer, after a fault in the dispatch of
\* queue i the tick is at a later queue or has armed its timer.
C12_FaultCaughtByLoop ==
    /\ pc \in {"init", "poll", "dispatch", "running", "timer"}
    /\ (FaultThisTick /\ Val(fault).phase = "poll")
       => pc \in {"dispatch", "running", "timer"}
    /\ (FaultThisTick /\ Val(fault).phase = "dispatch")
       => \/ pc \in {"dispatch", "running"} /\ qIdx > Val(fault).qIdx
          \/ pc = "timer"

\* A store update failed in the dispatch of the high queue, and still in
\* the same tick an item of the default queue was executed and the timer
\* was armed.
C12_Witness ==
    /\ FaultThisTick
    /\ Val(fault).phase = "dispatch"
    /\ Val(fault).qIdx = 1
    /\ pc = "timer"
    /\ dequeued["default"] = 1
    /\ IsSome(last)
    /\ LastRun.queue_name = "default"
    /\ IsSome(delay)

\* C13: while the store connection is open (no stop request) the loop is
\* never in a terminal state, whichever store operation failed.
C13_LoopNeverTerminal ==
    dbOpen => pc # "dead"

\* C14: once stop() has closed the store, no store operation is issued and
\* no tick begins.
C14_StopHaltsScheduling ==
    ~dbOpen => closedOps = 0 /\ pc \in {"timer", "running"}


\* C21: when the insert of the run of one due entry fails during a Poll,
\* every other due entry of that Poll that has a definition is admitted in
\* the same tick: it gets a new Pending run and an item in its queue.
C21_OnlyFailedEntrySkipped ==
    [][(/\ pc = "poll"
        /\ pc' = "dispatch"
        /\ fault' # fault
        /\ Val(fault').row > 0)
       => LET due == GetDueScheduledJobs(scheduled, now)
              new == (Len(jobRuns) + 1)..Len(jobRuns')
          IN \A i \in 1..Len(due) :
               (i # Val(fault').row /\ due[i].job_name \in DOMAIN jobDefinitions)
               => \E k \in new :
                    /\ jobRuns'[k].job_name = due[i].job_name
                    /\ jobRuns'[k].status = Pending
                    /\ \E j \in 1..Len(queues'[jobRuns'[k].queue_name]) :
                          queues'[jobRuns'[k].queue_name][j].runId = jobRuns'[k].id]_vars


\* C22: right after the load, the entry of every job the loader built has
\* next_run = load time + rescheduleIn when the job declares a numeric
\* rescheduleIn, whatever its reschedule flag, and next_run = load time
\* otherwise.
C22_InitialNextRun ==
    (pc = "poll" /\ tick = 1)
    => \A i \in 1..Len(files) :
         IsSome(files[i].name)
         => \E j \in 1..Len(scheduled) :
              /\ scheduled[j].job_name = Val(files[i].name)
              /\ scheduled[j].next_run =
                    IF IsSome(files[i].rescheduleIn)
                    THEN now + Val(files[i].rescheduleIn) ELSE now


\* The names of the files of the jobs directory that give a job: the
\* import succeeds and the job instance has a name.
ValidNames ==
    { Val(files[i].name) : i \in { j \in 1..Len(files) :
          /\ ~files[j].importThrows
          /\ IsSome(files[j].name)
          /\ Val(files[j].name) # "" } }

\* C23: after the load, the registered definitions are exactly those of the
\* valid files, wherever the invalid files (import fails, no name) are in
\* the directory, each of them has exactly one schedule entry, and the
\* invalid files have left no definition and no entry.
C23_PartialLoad ==
    pc # "init"
    => /\ DOMAIN jobDefinitions = ValidNames
       /\ Len(scheduled) = Cardinality(ValidNames)
       /\ \A n \in ValidNames :
             Cardinality({i \in 1..Len(scheduled) : scheduled[i].job_name = n}) = 1

\* The load went over a valid file, then a file that cannot be imported,
\* then a valid file again; two definitions are registered.
C23_Witness ==
    /\ pc = "poll"
    /\ Len(files) = 3
    /\ files[1].name = Some("A")
    /\ files[2].importThrows
    /\ files[3].name = Some("B")
    /\ Cardinality(DOMAIN jobDefinitions) = 2
    /\ Len(scheduled) = 2


\* C24: while the job dispatched from one queue is executing, the dispatch
\* of the tick can proceed for the other queues: when a later queue holds
\* an item, the step that dequeues an item and sets its run Running can
\* be taken.
C24_QueuesNotBlocked ==
    (/\ pc = "running"
     /\ \E i \in (qIdx + 1)..Len(QueueNames) : queues[QueueNames[i]] # << >>)
    => ENABLED DispatchStart


\* C25: every item of a queue carries the configured priority of the queue
\* and the items wait in the order they were admitted (ascending runId);
\* the runs of one queue are dispatched in that order: a run that was set
\* Running has a smaller id than every run of its queue still Pending.
C25_FifoPerQueue ==
    /\ \A q \in QueueNameSet :
         /\ \A i \in 1..Len(queues[q]) : queues[q][i].priority = ConfigPriority(q)
         /\ \A i, j \in 1..Len(queues[q]) :
               i < j => queues[q][i].runId < queues[q][j].runId
    /\ \A i, j \in 1..Len(jobRuns) :
         (/\ jobRuns[i].queue_name = jobRuns[j].queue_name
          /\ jobRuns[i].status # Pending
          /\ jobRuns[j].status = Pending)
         => jobRuns[i].id < jobRuns[j].id

\* Three runs were admitted to the default queue; the first has finished,
\* the second is executing and the third waits.
C25_Witness ==
    /\ pc = "running"
    /\ Len(jobRuns) = 3
    /\ \A i \in 1..3 : jobRuns[i].queue_name = "default"
    /\ IsSome(jobRuns[1].finished_at)
    /\ jobRuns[2].status = Running
    /\ jobRuns[3].status = Pending
    /\ Len(queues["default"]) = 1


\* C26: the loop dispatches one run at a time: the Poll of a tick and the
\* dispatch of a queue start only when no job is executing, the run that
\* is executing is the one dequeued last, and at most one run has status
\* Running at any time.
C26_OneRunningAtATime ==
    /\ pc \in {"poll", "dispatch", "timer"} => cur = None
    /\ pc = "running" => IsSome(cur) /\ jobRuns[Val(cur).runId].status = Running
    /\ Cardinality({i \in 1..Len(jobRuns) : jobRuns[i].status = Running}) <= 1


\* x limited to the interval lo..hi.
Clamp(x, lo, hi) == IF x < lo THEN lo ELSE IF x > hi THEN hi ELSE x

\* C27: the delay of the timer a tick has armed is 1000 ms when the
\* schedule table is empty, and otherwise the time from now to the
\* smallest next_run of the table, limited to 0..30000 ms.
C27_SleepIsClampedEarliest ==
    pc = "timer"
    => /\ IsSome(delay)
       /\ timerAt = now + Val(delay)
       /\ IF scheduled = << >>
          THEN Val(delay) = 1000
          ELSE \E i \in 1..Len(scheduled) :
                 /\ \A j \in 1..Len(scheduled) :
                       scheduled[i].next_run <= scheduled[j].next_run
                 /\ Val(delay) = Clamp(scheduled[i].next_run - now, 0, 30000)

\* The table holds two entries, the second is the earlier one and lies
\* less than 30 s ahead: the timer is armed for exactly that time.
C27_Witness ==
    /\ pc = "timer"
    /\ Len(scheduled) = 2
    /\ scheduled[2].next_run < scheduled[1].next_run
    /\ Val(delay) = scheduled[2].next_run - now
    /\ Val(delay) > 0
    /\ Val(delay) < 30000


\* C28: a job with reschedule = true and rescheduleIn = 0 is recurring for
\* the loader (it gets an entry at the load time) and for the dispatcher:
\* after a run of it returned Success at time T its entry is in the table
\* with next_run = T + 0.
C28_ZeroDelayStaysScheduled ==
    /\ (pc = "poll" /\ tick = 1)
       => \A n \in DOMAIN jobDefinitions :
            (jobDefinitions[n].reschedule /\ jobDefinitions[n].rescheduleIn = Some(0))
            => \E i \in 1..Len(scheduled) :
                 scheduled[i].job_name = n /\ scheduled[i].next_run = now
    /\ (/\ LastSucceeded
        /\ Val(last).job.reschedule
        /\ Val(last).job.rescheduleIn = Some(0))
       => \E i \in 1..Len(scheduled) :
            /\ scheduled[i].job_name = Val(last).job.name
            /\ scheduled[i].next_run = Val(last).T


\* The job definition jobDef with the retry policy r in place of its own.
WithPolicy(jobDef, r) ==
    [jobDef EXCEPT !.maxRetries = r.maxRetries,
                   !.backoffStrategy = r.backoffStrategy]

C30_OneOpenRunPerJob ==
    \A n \in DOMAIN jobDefinitions :
        /\ Cardinality({i \in 1..Len(jobRuns) :
                          /\ jobRuns[i].job_name = n
                          /\ jobRuns[i].status \in {Pending, Running}}) <= 1
        /\ Cardinality({<<q, j>> \in QueueNameSet \X (1..MaxRuns) :
                          /\ j <= Len(queues[q])
                          /\ queues[q][j].job.name = n}) <= 1


\* C31: while a run is Running because its job executes, the schedule
\* table holds an entry of that job that is due (it was due when the run
\* was set Running and nothing has changed it since).
C31_ExecutedOnlyWhenDue ==
    pc = "running"
    => \E i \in 1..Len(scheduled) :
         /\ scheduled[i].job_name = Val(cur).job.name
         /\ scheduled[i].next_run <= now


\* The rows of table t that are not of job name n.
OtherRows(t, n) == LET Other(r) == r.job_name # n IN SelectSeq(t, Other)

\* C32: a Poll leaves the schedule table as it is; the table is changed
\* only by the load and by the step that ends the execution of a job, and
\* that step changes no row of another job name.
C32_PollKeepsSchedule ==
    [][/\ pc = "poll" => scheduled' = scheduled
       /\ scheduled' # scheduled
          => \/ pc = "init"
             \/ /\ pc = "running"
                /\ OtherRows(scheduled', Val(cur).job.name)
                     = OtherRows(scheduled, Val(cur).job.name)]_vars

\* A Poll has just admitted a due entry: its Pending run is the newest of
\* the history and the entry is still in the table, still due.
C32_Witness ==
    /\ pc = "dispatch"
    /\ qIdx = 1
    /\ jobRuns # << >>
    /\ jobRuns[Len(jobRuns)].status = Pending
    /\ \E i \in 1..Len(scheduled) :
          /\ scheduled[i].job_name = jobRuns[Len(jobRuns)].job_name
          /\ scheduled[i].next_run <= now
    /\ Len(scheduled) >= 2


\* The positions of the items waiting in the queues: <<queue name, index>>.
QueuePositions ==
    { p \in QueueNameSet \X (1..(MaxRuns + 1)) : p[2] <= Len(queues[p[1]]) }

\* C33: every item waiting in a queue refers to a run of the history that
\* is Pending, sits in the queue that run names and has the priority that
\* run records, and no two waiting items refer to the same run.
C33_QueueItemsMatchRuns ==
    /\ \A p \in QueuePositions :
         LET item == queues[p[1]][p[2]] IN
           /\ item.runId \in 1..Len(jobRuns)
           /\ jobRuns[item.runId].id = item.runId
           /\ jobRuns[item.runId].status = Pending
           /\ jobRuns[item.runId].queue_name = p[1]
           /\ jobRuns[item.runId].priority = item.priority
           /\ jobRuns[item.runId].job_name = item.job.name
    /\ \A p1, p2 \in QueuePositions :
         queues[p1[1]][p1[2]].runId = queues[p2[1]][p2[2]].runId => p1 = p2

\* Items wait in two queues, two of them in one queue, after a run of the
\* history has ended and a store operation has failed.
C33_Witness ==
    /\ IsSome(fault)
    /\ IsSome(last)
    /\ Len(queues["default"]) + Len(queues["high"]) >= 2
    /\ queues["default"] # << >>
    /\ queues["high"] # << >>


\* C34: every run that is Pending has an item waiting in a queue, for
\* every queue name a loaded job declares.
C34_PendingRunHasItem ==
    \A i \in 1..Len(jobRuns) :
        jobRuns[i].status = Pending
        => \E p \in QueuePositions : queues[p[1]][p[2]].runId = jobRuns[i].id


\* C35: a run whose update with the result has persisted status Success
\* has status Success when its dispatch ends, also when the upsert or the
\* removal of the schedule entry that follows the update fails, and a run
\* with status Success never gets another status.
C35_SuccessIsFinal ==
    /\ []((IsSome(last) /\ Val(last).written = Some(Success))
            => LastRun.status = Success)
    /\ [][\A i \in 1..Len(jobRuns) :
            jobRuns[i].status = Success => jobRuns'[i].status = Success]_vars


\* The status of the run with id i; no status when there is no such run.
StatusOf(i) == IF i <= Len(jobRuns) THEN jobRuns[i].status ELSE 0 - 1

C37_ZeroSleepMakesProgress ==
    (/\ pc = "dispatch"
     /\ qIdx > Len(QueueNames)
     /\ tick >= 2
     /\ delay = Some(0))
    => \E q \in QueueNameSet : dequeued[q] >= 1


\* C38: when a scheduler is started on a store that already holds state,
\* the load of the jobs, all of them registered by the earlier process,
\* leaves the schedule table as it is: no existing entry is changed and no
\* entry that was removed is created again.
C38_RestartKeepsSchedule ==
    [][(pc = "init" /\ tick > 0 /\ pc' = "poll") => scheduled' = scheduled]_vars


\* C39: a new process starts with empty queues and its load changes no
\* run; a run the process found in the store (left Pending or Running by
\* the process before it) never waits in a queue, is never the run that
\* executes, and its row is never changed again.
C39_InheritedRunsUntouched ==
    /\ [](pc = "init" => \A q \in QueueNameSet : queues[q] = << >>)
    /\ [](\A p \in QueuePositions : queues[p[1]][p[2]].runId > inherited)
    /\ [](pc = "running" => Val(cur).runId > inherited)
    /\ [][/\ pc = "init" => jobRuns' = jobRuns
          /\ \A i \in 1..inherited : jobRuns'[i] = jobRuns[i]]_vars

\* The process before this one ended while its first run was executing;
\* this process has admitted and finished a run of its own, and the run
\* it found is still Running without a finish timestamp.
C39_Witness ==
    /\ inherited >= 1
    /\ jobRuns[1].status = Running
    /\ ~IsSome(jobRuns[1].finished_at)
    /\ pc = "timer"
    /\ IsSome(last)
    /\ Val(last).runId > inherited
    /\ IsSome(LastRun.finished_at)

====
